---- MODULE Spec2Model ----
(***************************************************************************)
(* Rigid-body motion with added mass: the equations of motion, the         *)
(* semi-implicit Euler integrator and the motion driver of                 *)
(* notebooks/Added Mass Motions.ipynb, and the spatial-inertia point       *)
(* transform of docs/added_mass_transformations.tex.                       *)
(*                                                                         *)
(* Numbers.  The code computes in IEEE doubles; the model computes in      *)
(* exact rationals <<num, den>> (den > 0, lowest terms), so "equal" below  *)
(* is what the documents call "equal within floating tolerance".  The one  *)
(* place where rounding changes the control flow, the singularity test of  *)
(* the matrix inversion, is modelled with its rounding (see inv).          *)
(***************************************************************************)
EXTENDS Integers, Sequences, FiniteSets, TLC

(***************************************************************************)
(* Exact rational arithmetic.                                              *)
(***************************************************************************)
Abs(n) == IF n < 0 THEN -n ELSE n

RECURSIVE GCD(_, _)
GCD(a, b) == IF b = 0 THEN a ELSE GCD(b, a % b)

Norm(n, d) ==
    LET g == GCD(Abs(n), Abs(d))
        s == IF d < 0 THEN -1 ELSE 1
    IN  <<(s * n) \div g, (s * d) \div g>>

Q(n) == <<n, 1>>
Zero == Q(0)
One == Q(1)
RAdd(a, b) ==
    IF a[1] = 0 THEN b
    ELSE IF b[1] = 0 THEN a
    ELSE IF a[2] = 1 /\ b[2] = 1 THEN <<a[1] + b[1], 1>>
    ELSE Norm(a[1] * b[2] + b[1] * a[2], a[2] * b[2])
RNeg(a) == <<-a[1], a[2]>>
RSub(a, b) == RAdd(a, RNeg(b))
RMul(a, b) ==
    IF a[1] = 0 \/ b[1] = 0 THEN <<0, 1>>
    ELSE IF a[2] = 1 /\ b[2] = 1 THEN <<a[1] * b[1], 1>>
    ELSE Norm(a[1] * b[1], a[2] * b[2])
RInv(a) == Norm(a[2], a[1])
RDiv(a, b) == RMul(a, RInv(b))
RAbs(a) == <<Abs(a[1]), a[2]>>
RLess(a, b) == a[1] * b[2] < b[1] * a[2]

(***************************************************************************)
(* Fixed-size vectors and matrices (tuples, and tuples of rows).           *)
(***************************************************************************)
\* G(e) and G(e1, e2), with the arguments evaluated once, before G.
With(e, G(_)) == CHOOSE r \in {G(x) : x \in {e}} : TRUE
With2(e1, e2, G(_, _)) == CHOOSE r \in {G(x1, x2) : x1 \in {e1}, x2 \in {e2}} : TRUE

V3(f(_)) == <<f(1), f(2), f(3)>>
V4(f(_)) == <<f(1), f(2), f(3), f(4)>>
V6(f(_)) == <<f(1), f(2), f(3), f(4), f(5), f(6)>>
Vec(n, f(_)) == IF n = 3 THEN V3(f) ELSE IF n = 4 THEN V4(f) ELSE V6(f)
Mat(n, f(_, _)) == Vec(n, LAMBDA i : Vec(n, LAMBDA j : f(i, j)))

\* u[1] v[1] + ... + u[m] v[m], and the same along row i of A and column j of B.
RECURSIVE DotTo(_, _, _)
DotTo(u, v, m) == IF m = 0 THEN Zero ELSE RAdd(DotTo(u, v, m - 1), RMul(u[m], v[m]))
Dot(u, v) == DotTo(u, v, Len(u))
RECURSIVE MulTo(_, _, _, _, _)
MulTo(A, B, i, j, m) ==
    IF m = 0 THEN Zero ELSE RAdd(MulTo(A, B, i, j, m - 1), RMul(A[i][m], B[m][j]))

MatMul(A, B) ==
    With2(A, B, LAMBDA a, b : Mat(Len(a), LAMBDA i, j : MulTo(a, b, i, j, Len(a))))
MatVec(A, v) ==
    With2(A, v, LAMBDA a, b : Vec(Len(a), LAMBDA i : DotTo(a[i], b, Len(b))))
MatAdd(A, B) ==
    With2(A, B, LAMBDA a, b : Mat(Len(a), LAMBDA i, j : RAdd(a[i][j], b[i][j])))
MatSub(A, B) ==
    With2(A, B, LAMBDA a, b : Mat(Len(a), LAMBDA i, j : RSub(a[i][j], b[i][j])))
MatNeg(A) == With(A, LAMBDA a : Mat(Len(a), LAMBDA i, j : RNeg(a[i][j])))
Transpose(A) == With(A, LAMBDA a : Mat(Len(a), LAMBDA i, j : a[j][i]))
VecAdd(u, v) == With2(u, v, LAMBDA a, b : Vec(Len(a), LAMBDA i : RAdd(a[i], b[i])))
VecSub(u, v) == With2(u, v, LAMBDA a, b : Vec(Len(a), LAMBDA i : RSub(a[i], b[i])))
VecScale(c, v) == With2(c, v, LAMBDA a, b : Vec(Len(b), LAMBDA i : RMul(a, b[i])))

Zeros3 == <<Zero, Zero, Zero>>
Zeros6 == <<Zero, Zero, Zero, Zero, Zero, Zero>>
Zeros33 == <<Zeros3, Zeros3, Zeros3>>
Eye(n) == Mat(n, LAMBDA i, j : IF i = j THEN One ELSE Zero)

\* The four 3x3 blocks of a 6x6 matrix: M[:3, :3], M[:3, 3:], M[3:, :3], M[3:, 3:].
Block(M, bi, bj) ==
    With(M, LAMBDA a : Mat(3, LAMBDA i, j : a[3 * (bi - 1) + i][3 * (bj - 1) + j]))
\* np.r_[np.c_[B11, B12], np.c_[B21, B22]]
Blocks(B11, B12, B21, B22) ==
    With2(<<B11, B12>>, <<B21, B22>>, LAMBDA top, bot :
        Mat(6, LAMBDA i, j :
            IF i <= 3
            THEN (IF j <= 3 THEN top[1][i][j] ELSE top[2][i][j - 3])
            ELSE (IF j <= 3 THEN bot[1][i - 3][j] ELSE bot[2][i - 3][j - 3])))
\* sp.linalg.block_diag(B, B)
BlockDiag(B1, B2) == Blocks(B1, Zeros33, Zeros33, B2)
\* v[:3] and v[3:]
Head3(v) == <<v[1], v[2], v[3]>>
Tail3(v) == <<v[4], v[5], v[6]>>

(***************************************************************************)
(* hat: the left cross-product matrix of a 3-vector.                       *)
(***************************************************************************)
hat_wrong_sign(v) ==
    << <<Zero, v[3], v[2]>>,
       <<v[3], Zero, RNeg(v[1])>>,
       <<RNeg(v[2]), v[1], Zero>> >>

hat(v) ==
    << <<Zero, RNeg(v[3]), v[2]>>,
       <<v[3], Zero, RNeg(v[1])>>,
       <<RNeg(v[2]), v[1], Zero>> >>

\* The cross product u x w, component by component.
Cross(u, w) ==
    << RSub(RMul(u[2], w[3]), RMul(u[3], w[2])),
       RSub(RMul(u[3], w[1]), RMul(u[1], w[3])),
       RSub(RMul(u[1], w[2]), RMul(u[2], w[1])) >>

(***************************************************************************)
(* The point transform of a spatial inertia (added mass) matrix,           *)
(* eq. (transform2): A_P = A_Q + [[0, -A11 r^], [r^ A11,                   *)
(*                                -r^ A11 r^ + r^ A12 - A21 r^]].          *)
(***************************************************************************)
\* Mutants: eq. (transform1)'s blocks added to A_Q as if they were (transform2)'s;
\* the upper right block's sign lost; the last term's sign lost.
TransformAddsFullBlocks(AQ, r) ==
    LET A11 == Block(AQ, 1, 1)
        A12 == Block(AQ, 1, 2)
        A21 == Block(AQ, 2, 1)
        rh == hat(r)
        rA11 == MatMul(rh, A11)
    IN  MatAdd(AQ,
               Blocks(A11,
                      MatNeg(MatMul(A11, rh)),
                      rA11,
                      MatSub(MatAdd(MatNeg(MatMul(rA11, rh)), MatMul(rh, A12)),
                             MatMul(A21, rh))))

TransformUpperRightSign(AQ, r) ==
    LET A11 == Block(AQ, 1, 1)
        A12 == Block(AQ, 1, 2)
        A21 == Block(AQ, 2, 1)
        rh == hat(r)
        rA11 == MatMul(rh, A11)
    IN  MatAdd(AQ,
               Blocks(Zeros33,
                      MatMul(A11, rh),
                      rA11,
                      MatSub(MatAdd(MatNeg(MatMul(rA11, rh)), MatMul(rh, A12)),
                             MatMul(A21, rh))))

TransformLastTermSign(AQ, r) ==
    LET A11 == Block(AQ, 1, 1)
        A12 == Block(AQ, 1, 2)
        A21 == Block(AQ, 2, 1)
        rh == hat(r)
        rA11 == MatMul(rh, A11)
    IN  MatAdd(AQ,
               Blocks(Zeros33,
                      MatNeg(MatMul(A11, rh)),
                      rA11,
                      MatAdd(MatAdd(MatNeg(MatMul(rA11, rh)), MatMul(rh, A12)),
                             MatMul(A21, rh))))

TransformSpatialInertia(AQ, r) ==
    LET A11 == Block(AQ, 1, 1)
        A12 == Block(AQ, 1, 2)
        A21 == Block(AQ, 2, 1)
        rh == hat(r)
        rA11 == MatMul(rh, A11)
    IN  MatAdd(AQ,
               Blocks(Zeros33,
                      MatNeg(MatMul(A11, rh)),
                      rA11,
                      MatSub(MatAdd(MatNeg(MatMul(rA11, rh)), MatMul(rh, A12)),
                             MatMul(A21, rh))))

(***************************************************************************)
(* Orientations.  A quaternion is <<w, x, y, z>>.  The exponential map     *)
(* qt.from_rotation_vector(phi) = (cos(|phi|/2), sin(|phi|/2) phi/|phi|)   *)
(* has no rational value unless phi = 0, so an orientation is kept as      *)
(* base, a quaternion, with the increments composed onto it from the left  *)
(* kept as the list inc of their rotation vectors, the latest first:       *)
(*   [inc |-> <<phi2, phi1>>, base |-> q]  is  exp(phi2) * exp(phi1) * q.  *)
(***************************************************************************)
QOne == <<One, Zero, Zero, Zero>>
Orientation(q) == [inc |-> <<>>, base |-> q]

\* The Hamilton product a * b.
QMul(a, b) ==
    << RSub(RSub(RSub(RMul(a[1], b[1]), RMul(a[2], b[2])), RMul(a[3], b[3])), RMul(a[4], b[4])),
       RSub(RAdd(RAdd(RMul(a[1], b[2]), RMul(a[2], b[1])), RMul(a[3], b[4])), RMul(a[4], b[3])),
       RAdd(RAdd(RSub(RMul(a[1], b[3]), RMul(a[2], b[4])), RMul(a[3], b[1])), RMul(a[4], b[2])),
       RAdd(RSub(RAdd(RMul(a[1], b[4]), RMul(a[2], b[3])), RMul(a[3], b[2])), RMul(a[4], b[1])) >>

\* Mutant: the exponential map without its case for the zero rotation vector.
from_rotation_vector_noguard(phi, q) ==
    [inc |-> <<phi>> \o q.inc, base |-> q.base]

\* qt.from_rotation_vector(phi) * q: the identity quaternion times q when phi is
\* zero, and otherwise one more increment on the left of q.

from_rotation_vector_times(phi, q) ==
    IF phi = Zeros3
    THEN (IF q.inc = <<>> THEN Orientation(QMul(QOne, q.base)) ELSE q)
    ELSE [inc |-> <<phi>> \o q.inc, base |-> q.base]

\* qt.as_rotation_matrix(q), for a quaternion with no pending increment.
as_rotation_matrix(q) ==
    LET w == q[1]
        x == q[2]
        y == q[3]
        z == q[4]
        nn == RAdd(RAdd(RMul(w, w), RMul(x, x)), RAdd(RMul(y, y), RMul(z, z)))
        two(a) == RDiv(RMul(Q(2), a), nn)
    IN  << << RSub(One, two(RAdd(RMul(y, y), RMul(z, z)))),
              two(RSub(RMul(x, y), RMul(z, w))),
              two(RAdd(RMul(x, z), RMul(y, w))) >>,
           << two(RAdd(RMul(x, y), RMul(z, w))),
              RSub(One, two(RAdd(RMul(x, x), RMul(z, z)))),
              two(RSub(RMul(y, z), RMul(x, w))) >>,
           << two(RSub(RMul(x, z), RMul(y, w))),
              two(RAdd(RMul(y, z), RMul(x, w))),
              RSub(One, two(RAdd(RMul(x, x), RMul(y, y)))) >> >>

(***************************************************************************)
(* np.linalg.inv: elimination with partial pivoting; it raises LinAlgError *)
(* when a pivot is exactly zero.  The result says whether the matrix was   *)
(* inverted (ok), and whether every step of the elimination was exact in   *)
(* binary floating point (exact): the entries dyadic and each pivot a      *)
(* power of two.  A singular matrix whose elimination is exact meets a     *)
(* pivot that is exactly zero in floating point too; one whose elimination *)
(* rounds may be left with a tiny non-zero pivot.                          *)
(***************************************************************************)
RECURSIVE IsPow2(_)
IsPow2(k) == IF k <= 1 THEN k = 1 ELSE (k % 2 = 0 /\ IsPow2(k \div 2))
IsDyadic(a) == IsPow2(a[2])
ExactPivot(a) == IsPow2(Abs(a[1])) /\ IsPow2(a[2])
AllDyadic(M) == \A i \in 1..Len(M) : \A j \in 1..Len(M[i]) : IsDyadic(M[i][j])

\* The first row at or below k with the largest |A[i][k]| (idamax).
RECURSIVE PivotRow(_, _, _, _)
PivotRow(A, k, i, best) ==
    IF i > Len(A) THEN best
    ELSE PivotRow(A, k, i + 1,
                  IF RLess(RAbs(A[best][k]), RAbs(A[i][k])) THEN i ELSE best)

SwapRows(X, k, p) ==
    With(X, LAMBDA a :
        Mat(6, LAMBDA i, j : IF i = k THEN a[p][j] ELSE IF i = p THEN a[k][j] ELSE a[i][j]))

\* Row k divided by the pivot A[k][k], and the multiple A[i][k] / A[k][k] of
\* row k taken from every other row i; X is A itself or the right-hand side.
Eliminate(X, A, k) ==
    With2(X, Vec(6, LAMBDA i : RDiv(A[i][k], A[k][k])), LAMBDA x, l :
        Mat(6, LAMBDA i, j :
            IF i = k THEN RMul(x[k][j], RInv(A[k][k]))
            ELSE IF l[i] = Zero \/ x[k][j] = Zero THEN x[i][j]
            ELSE RSub(x[i][j], RMul(l[i], x[k][j]))))

RECURSIVE GaussJordan(_, _, _, _)
GaussJordan(A, B, k, exact) ==
    IF k > 6 THEN [ok |-> TRUE, exact |-> exact, val |-> B]
    ELSE LET p == PivotRow(A, k, k, k)
         IN  IF A[p][k] = Zero
             THEN [ok |-> FALSE, exact |-> exact, val |-> B]
             ELSE With2(SwapRows(A, k, p), SwapRows(B, k, p), LAMBDA A1, B1 :
                  With2(Eliminate(A1, A1, k), Eliminate(B1, A1, k), LAMBDA A2, B2 :
                      GaussJordan(A2, B2, k + 1, exact /\ ExactPivot(A1[k][k]))))

inv(M) == GaussJordan(M, Eye(6), 1, AllDyadic(M))

(***************************************************************************)
(* generate_equations_of_motion: the equations of motion in the body form  *)
(* (eomB, Fossen's eq. 2.90) and in the fixed frame (eom).  A result is    *)
(* [status, val]: status "ok" with the value, "singular" when the          *)
(* inversion raises, "rounded" when the matrix is singular and its         *)
(* elimination rounds (the inversion then raises or returns a matrix of    *)
(* no meaning, as the rounding falls).                                     *)
(***************************************************************************)
\* Mutant: an inversion that never reports a singular matrix.
eomB_never_raises(M, nu, tau) ==
    LET nu1 == Head3(nu)
        nu2 == Tail3(nu)
        h1 == hat(VecAdd(MatVec(Block(M, 1, 1), nu1), MatVec(Block(M, 1, 2), nu2)))
        h2 == hat(VecAdd(MatVec(Block(M, 2, 1), nu1), MatVec(Block(M, 2, 2), nu2)))
        C == Blocks(Zeros33, MatNeg(h1), MatNeg(h1), MatNeg(h2))
    IN  With(inv(M), LAMBDA Mi :
            IF Mi.ok
            THEN [status |-> "ok", val |-> MatVec(Mi.val, VecSub(tau, MatVec(C, nu)))]
            ELSE [status |-> "rounded", val |-> Zeros6])

eomB(M, nu, tau) ==
    LET nu1 == Head3(nu)
        nu2 == Tail3(nu)
        M11 == Block(M, 1, 1)
        M12 == Block(M, 1, 2)
        M21 == Block(M, 2, 1)
        M22 == Block(M, 2, 2)
        h1 == hat(VecAdd(MatVec(M11, nu1), MatVec(M12, nu2)))
        h2 == hat(VecAdd(MatVec(M21, nu1), MatVec(M22, nu2)))
        C == Blocks(Zeros33, MatNeg(h1), MatNeg(h1), MatNeg(h2))
    IN  With(inv(M), LAMBDA Mi :
            IF Mi.ok
            THEN [status |-> "ok", val |-> MatVec(Mi.val, VecSub(tau, MatVec(C, nu)))]
            ELSE [status |-> IF Mi.exact THEN "singular" ELSE "rounded", val |-> Zeros6])

\* Mutant: the body-frame result returned without the correction for the
\* rotation of the frame.
eom_without_frame_term(spatial_inertia_body, pose, vels, forces) ==
    With(as_rotation_matrix(pose.q.base), LAMBDA R :
    With(BlockDiag(R, R), LAMBDA RR :
    With(MatMul(MatMul(RR, spatial_inertia_body), Transpose(RR)), LAMBDA M :
        eomB(M, vels, forces))))

eom(spatial_inertia_body, pose, vels, forces) ==
    With(as_rotation_matrix(pose.q.base), LAMBDA R :
    With(BlockDiag(R, R), LAMBDA RR :
    With(MatMul(MatMul(RR, spatial_inertia_body), Transpose(RR)), LAMBDA M :
    With(eomB(M, vels, forces), LAMBDA nud :
        LET w == Tail3(vels)
        IN  IF nud.status = "ok"
            THEN [status |-> "ok",
                  val |-> VecAdd(nud.val, MatVec(BlockDiag(hat(w), hat(w)), vels))]
            ELSE nud))))

(***************************************************************************)
(* generate_discrete_eom: one semi-implicit Euler step.  The result holds  *)
(* what the step writes to its three outputs.                              *)
(***************************************************************************)
\* Mutants: explicit Euler (the position advanced with the velocity from before
\* the step), and the timestamp restarted from the step size.
discrete_eom_explicit(spatial_inertia_body, dt, pose, vels, forces) ==
    With(eom(spatial_inertia_body, pose, vels, forces), LAMBDA acc :
    With(acc.val, LAMBDA accs_out :
    With(VecAdd(vels, VecScale(dt, accs_out)), LAMBDA vels_out :
        [status |-> acc.status,
         accs_out |-> accs_out,
         vels_out |-> vels_out,
         pose_out |-> [t |-> RAdd(pose.t, dt),
                       p |-> VecAdd(pose.p, VecScale(dt, Head3(vels))),
                       q |-> from_rotation_vector_times(VecScale(dt, Tail3(vels_out)),
                                                        pose.q)]])))

discrete_eom_time_restarts(spatial_inertia_body, dt, pose, vels, forces) ==
    With(eom(spatial_inertia_body, pose, vels, forces), LAMBDA acc :
    With(acc.val, LAMBDA accs_out :
    With(VecAdd(vels, VecScale(dt, accs_out)), LAMBDA vels_out :
        [status |-> acc.status,
         accs_out |-> accs_out,
         vels_out |-> vels_out,
         pose_out |-> [t |-> dt,
                       p |-> VecAdd(pose.p, VecScale(dt, Head3(vels_out))),
                       q |-> from_rotation_vector_times(VecScale(dt, Tail3(vels_out)),
                                                        pose.q)]])))

discrete_eom(spatial_inertia_body, dt, pose, vels, forces) ==
    With(eom(spatial_inertia_body, pose, vels, forces), LAMBDA acc :
    With(acc.val, LAMBDA accs_out :
    With(VecAdd(vels, VecScale(dt, accs_out)), LAMBDA vels_out :
        [status |-> acc.status,
         accs_out |-> accs_out,
         vels_out |-> vels_out,
         pose_out |-> [t |-> RAdd(pose.t, dt),
                       p |-> VecAdd(pose.p, VecScale(dt, Head3(vels_out))),
                       q |-> from_rotation_vector_times(VecScale(dt, Tail3(vels_out)),
                                                        pose.q)]])))

(***************************************************************************)
(* The inputs the model draws from.                                        *)
(***************************************************************************)
MaxSteps == 2
MaxForces == 2

Half == <<1, 2>>
IntVec(v) == Vec(Len(v), LAMBDA c : Q(v[c]))
IntMat(A) == Mat(Len(A), LAMBDA r, c : Q(A[r][c]))

\* np.eye(6), the notebook's body.
EyeBody == Eye(6)
\* A rigid body of mass m and unit inertia tensor, about its centre of mass.
RigidBody(m) == Mat(6, LAMBDA i, j : IF i # j THEN Zero ELSE IF i <= 3 THEN Q(m) ELSE One)
\* An invertible inertia with added mass: neither symmetric nor block diagonal.
AddedMassBody ==
    Mat(6, LAMBDA i, j :
        IF i = j THEN One
        ELSE IF i = 1 /\ j = 5 THEN One
        ELSE IF i = 4 /\ j = 2 THEN Q(2)
        ELSE Zero)
\* Rank 0: every elimination step is exact.
ZeroBody == Mat(6, LAMBDA i, j : Zero)
\* Rank 5: the rows 1 2 3, 4 5 6, 7 8 9 are dependent, and the elimination
\* divides by 7.
RoundedSingularBody ==
    IntMat(<< <<1, 2, 3, 0, 0, 0>>, <<4, 5, 6, 0, 0, 0>>, <<7, 8, 9, 0, 0, 0>>,
              <<0, 0, 0, 1, 0, 0>>, <<0, 0, 0, 0, 1, 0>>, <<0, 0, 0, 0, 0, 1>> >>)
Bodies == {EyeBody, RigidBody(2), AddedMassBody, ZeroBody, RoundedSingularBody}

Timesteps == {One, Half}

ZeroPose == [t |-> Zero, p |-> Zeros3, q |-> Orientation(<<Zero, Zero, Zero, Zero>>)]
\* The notebook's initial pose, and two others with unit quaternions.
Poses0 ==
    { [t |-> Zero, p |-> Zeros3, q |-> Orientation(QOne)],
      [t |-> One, p |-> IntVec(<<1, 2, 3>>), q |-> Orientation(IntVec(<<0, 1, 0, 0>>))],
      [t |-> Zero, p |-> IntVec(<<0, 0, 1>>), q |-> Orientation(<<Half, Half, Half, Half>>)] }
Vels0 == {Zeros6, IntVec(<<1, 0, 0, 0, 0, 0>>), IntVec(<<0, 1, 0, 0, 0, 1>>)}
ForceValues == {Zeros6, IntVec(<<1, 0, 2, 0, 0, 0>>), IntVec(<<0, 0, 0, 0, 1, 0>>)}
ForceSeqs == UNION {[1..len -> ForceValues] : len \in 0..MaxForces}

\* Values the model does not compute: what a step writes after an inversion
\* that rounding let through.
NaR == <<0, 0>>
NaR3 == <<NaR, NaR, NaR>>
NaR6 == <<NaR, NaR, NaR, NaR, NaR, NaR>>
Computable(pose, v) == pose.q.inc = <<>> /\ pose.q.base[1] # NaR /\ v[1] # NaR

(***************************************************************************)
(* The program: the notebook's cells in order, then apply_discrete_eom     *)
(* with its loop taken one iteration at a time.                            *)
(***************************************************************************)
VARIABLES
    pc,                    \* "start", "eom", "discrete", "loop", "returned", "raised"
    spatial_inertia_body,  \* captured by generate_equations_of_motion
    dt,                    \* captured by generate_discrete_eom
    pose0, vels0, forces, n_steps,   \* the arguments of apply_discrete_eom
    poses, vels, accs,     \* its three buffers, indexed from 0
    n,                     \* its loop variable
    err,                   \* the exception that ended it, or "none"
    tpc,                   \* "off", "at_Q", "at_P", "back", "hat"
    tA, tr,                \* a matrix about Q, and the displacement from P to Q
    tP, tBack,             \* tA transformed to P, and that transformed back by -tr
    tw, tHat, tHw          \* a vector w, hat(tr) and hat(tr) w

simvars == <<pc, spatial_inertia_body, dt, pose0, vels0, forces, n_steps,
             poses, vels, accs, n, err>>
tvars == <<tpc, tA, tr, tP, tBack, tw, tHat, tHw>>
vars == <<simvars, tvars>>

SimOff ==
    /\ spatial_inertia_body = <<>>
    /\ dt = Zero
    /\ pose0 = ZeroPose
    /\ vels0 = Zeros6
    /\ forces = <<>>
    /\ n_steps = 0
    /\ poses = <<>>
    /\ vels = <<>>
    /\ accs = <<>>
    /\ n = 0
    /\ err = "none"

TOff ==
    /\ tpc = "off"
    /\ tA = <<>>
    /\ tr = Zeros3
    /\ tP = <<>>
    /\ tBack = <<>>
    /\ tw = Zeros3
    /\ tHat = <<>>
    /\ tHw = Zeros3

Init == pc = "start" /\ SimOff /\ TOff

GenerateEquationsOfMotion ==
    /\ pc = "start"
    /\ \E b \in Bodies : spatial_inertia_body' = b
    /\ pc' = "eom"
    /\ UNCHANGED <<dt, pose0, vels0, forces, n_steps, poses, vels, accs, n, err, tvars>>

GenerateDiscreteEom ==
    /\ pc = "eom"
    /\ \E d \in Timesteps : dt' = d
    /\ pc' = "discrete"
    /\ UNCHANGED <<spatial_inertia_body, pose0, vels0, forces, n_steps, poses, vels,
                   accs, n, err, tvars>>

\* np.zeros(n_steps + 1, dtype=pose_dtype), np.zeros((n_steps + 1, 6)),
\* np.zeros((n_steps, 6)); then poses[0] = pose0 and vels[0] = vels0.
AllocPoses(p0, steps) == [k \in 0..steps |-> IF k = 0 THEN p0 ELSE ZeroPose]
AllocVels(v0, steps) == [k \in 0..steps |-> IF k = 0 THEN v0 ELSE Zeros6]
AllocAccsOneMore(steps) == [k \in 0..steps |-> Zeros6]
AllocAccs(steps) == [k \in 0..(steps - 1) |-> Zeros6]

ApplyDiscreteEomCall ==
    /\ pc = "discrete"
    /\ \E p0 \in Poses0, v0 \in Vels0, f \in ForceSeqs, steps \in 0..MaxSteps :
        /\ pose0' = p0
        /\ vels0' = v0
        /\ forces' = f
        /\ n_steps' = steps
        /\ poses' = AllocPoses(p0, steps)
        /\ vels' = AllocVels(v0, steps)
        /\ accs' = AllocAccs(steps)
    /\ n' = 0
    /\ pc' = "loop"
    /\ UNCHANGED <<spatial_inertia_body, dt, err, tvars>>

\* forces[n]: an index past the end raises IndexError.
HasForceOffByOne(f, k) == k + 1 < Len(f)
HasForce(f, k) == k < Len(f)
ForceAtFirst(f, k) == f[1]
ForceAt(f, k) == f[k + 1]

Raise(e) ==
    /\ err' = e
    /\ pc' = "raised"
    /\ UNCHANGED <<poses, vels, accs, n>>

\* Mutant: the outputs given as poses[n] and vels[n], the entries the step reads.
WriteInPlace(out) ==
    /\ accs' = [accs EXCEPT ![n] = out.accs_out]
    /\ vels' = [vels EXCEPT ![n] = out.vels_out]
    /\ poses' = [poses EXCEPT ![n] = out.pose_out]
    /\ n' = n + 1
    /\ UNCHANGED <<pc, err>>

Write(out) ==
    /\ accs' = [accs EXCEPT ![n] = out.accs_out]
    /\ vels' = [vels EXCEPT ![n + 1] = out.vels_out]
    /\ poses' = [poses EXCEPT ![n + 1] = out.pose_out]
    /\ n' = n + 1
    /\ UNCHANGED <<pc, err>>

\* What the step leaves in its outputs when the inversion let a singular
\* matrix through: the timestamp, which does not depend on it, and values of
\* no meaning.
Uncomputed(pose) ==
    [accs_out |-> NaR6, vels_out |-> NaR6,
     pose_out |-> [t |-> RAdd(pose.t, dt), p |-> NaR3,
                   q |-> Orientation(<<NaR, NaR, NaR, NaR>>)]]

\* One iteration: discrete_eom(poses[n], vels[n], forces[n], poses[n + 1],
\* vels[n + 1], accs[n]).  From inputs the model does not carry the arithmetic
\* through, the step writes values it does not compute: after a rotation the
\* inertia is still invertible and the step completes; after an inversion that
\* rounding let through, the next inversion may raise or not.
Step ==
    /\ pc = "loop"
    /\ n < n_steps
    /\ IF ~HasForce(forces, n)
       THEN Raise("IndexError")
       ELSE IF ~Computable(poses[n], vels[n])
       THEN \/ Write(Uncomputed(poses[n]))
            \/ vels[n][1] = NaR /\ Raise("LinAlgError")
       ELSE \E out \in {discrete_eom(spatial_inertia_body, dt, poses[n], vels[n],
                                     ForceAt(forces, n))} :
                CASE out.status = "ok" -> Write(out)
                  [] out.status = "singular" -> Raise("LinAlgError")
                  [] out.status = "rounded" ->
                         \/ Raise("LinAlgError")
                         \/ Write(Uncomputed(poses[n]))
    /\ UNCHANGED <<spatial_inertia_body, dt, pose0, vels0, forces, n_steps, tvars>>

Return ==
    /\ pc = "loop"
    /\ n = n_steps
    /\ pc' = "returned"
    /\ UNCHANGED <<spatial_inertia_body, dt, pose0, vels0, forces, n_steps, poses, vels,
                   accs, n, err, tvars>>

Next ==
    \/ GenerateEquationsOfMotion
    \/ GenerateDiscreteEom
    \/ ApplyDiscreteEomCall
    \/ Step
    \/ Return

Spec == Init /\ [][Next]_vars

\* Once called, apply_discrete_eom runs its loop to the end: no iteration waits,
\* and neither does the return.  This is weak fairness of Return and of Step,
\* the latter with ENABLED <<Step>>_vars written out: an iteration is enabled
\* exactly while the loop has one left, each branch of Step changing n or pc.
StepEnabled == pc = "loop" /\ n < n_steps
FairSpec ==
    /\ Spec
    /\ WF_vars(Return)
    /\ ([]<>(~StepEnabled) \/ []<><<Step>>_vars)

(***************************************************************************)
(* The point transform and hat as operations of their own: the notebook    *)
(* never calls the transform, which the derivation gives as a formula.     *)
(***************************************************************************)
MaxR == 1
MaxSeed == 2

\* The matrix with a single 1, at row a and column b.
Unit(a, b) == Mat(6, LAMBDA i, j : IF i = a /\ j = b THEN One ELSE Zero)
\* Dense matrices with entries in -3..3, neither symmetric nor definite.
Dense(seed) == Mat(6, LAMBDA i, j : Q(((i * i + 3 * j + seed * (2 * i + j)) % 7) - 3))
Matrices ==
    {Unit(a, b) : a \in 1..6, b \in 1..6} \cup {Dense(seed) : seed \in 0..MaxSeed}
        \cup {RigidBody(2), AddedMassBody, ZeroBody}
Displacements == {IntVec(<<a, b, c>>) : a \in -MaxR..MaxR, b \in -MaxR..MaxR, c \in -MaxR..MaxR}
Probes == {IntVec(<<1, 0, 0>>), IntVec(<<0, 1, 0>>), IntVec(<<0, 0, 1>>),
           IntVec(<<1, -2, 3>>)}
VecNeg(v) == Vec(Len(v), LAMBDA i : RNeg(v[i]))

InitT ==
    /\ pc = "off"
    /\ SimOff
    /\ tpc = "at_Q"
    /\ tA \in Matrices
    /\ tr \in Displacements
    /\ tP = <<>>
    /\ tBack = <<>>
    /\ tw = Zeros3
    /\ tHat = <<>>
    /\ tHw = Zeros3

Transform ==
    /\ tpc = "at_Q"
    /\ tP' = TransformSpatialInertia(tA, tr)
    /\ tpc' = "at_P"
    /\ UNCHANGED <<simvars, tA, tr, tBack, tw, tHat, tHw>>

TransformBack ==
    /\ tpc = "at_P"
    /\ tBack' = TransformSpatialInertia(tP, VecNeg(tr))
    /\ tpc' = "back"
    /\ UNCHANGED <<simvars, tA, tr, tP, tw, tHat, tHw>>

Hat ==
    /\ tpc = "at_Q"
    /\ \E w \in Probes :
        /\ tw' = w
        /\ tHw' = MatVec(hat(tr), w)
    /\ tHat' = hat(tr)
    /\ tpc' = "hat"
    /\ UNCHANGED <<simvars, tA, tr, tP, tBack>>

NextT ==
    \/ Transform
    \/ TransformBack
    \/ Hat

SpecT == InitT /\ [][NextT]_vars

(***************************************************************************)
(* The dynamics as an operation of its own: one call of the function that  *)
(* generate_equations_of_motion returns, on a pose, a velocity and a force *)
(* (held in pose0, vels0 and forces[1]), its result left in accs[0].       *)
(***************************************************************************)
\* Velocities with every linear part of the grid and angular parts along and
\* off the axes.
EomVels ==
    {nu1 \o nu2 : nu1 \in Displacements,
                  nu2 \in Probes \cup {Zeros3, IntVec(<<-1, 1, 2>>)}}

InitE ==
    /\ pc = "eom_call"
    /\ spatial_inertia_body \in Bodies
    /\ dt = Zero
    /\ pose0 \in Poses0
    /\ vels0 \in EomVels
    /\ forces \in {<<f>> : f \in ForceValues}
    /\ n_steps = 0
    /\ poses = <<>>
    /\ vels = <<>>
    /\ accs = <<>>
    /\ n = 0
    /\ err = "none"
    /\ TOff

EomCall ==
    /\ pc = "eom_call"
    /\ \E nud \in {eom(spatial_inertia_body, pose0, vels0, forces[1])} :
           CASE nud.status = "ok" ->
                    /\ accs' = [k \in 0..0 |-> nud.val]
                    /\ pc' = "eom_returned"
                    /\ err' = "none"
             [] nud.status = "singular" ->
                    /\ accs' = accs
                    /\ pc' = "eom_raised"
                    /\ err' = "LinAlgError"
             [] nud.status = "rounded" ->
                    \/ /\ accs' = accs
                       /\ pc' = "eom_raised"
                       /\ err' = "LinAlgError"
                    \/ /\ accs' = [k \in 0..0 |-> NaR6]
                       /\ pc' = "eom_returned"
                       /\ err' = "none"
    /\ UNCHANGED <<spatial_inertia_body, dt, pose0, vels0, forces, n_steps, poses, vels,
                   n, tvars>>

NextE == EomCall

SpecE == InitE /\ [][NextE]_vars

(***************************************************************************)
(* The integrator and the driver: C1, C2, C3, C4, C8, C9 (under Spec).     *)
(***************************************************************************)
Called == pc \in {"loop", "returned", "raised"}
\* Step k wrote values the model computes.
Computed(k) == vels[k + 1][1] # NaR

\* The determinant, by expansion along the first row.
Without(row, j) == [c \in 1..(Len(row) - 1) |-> IF c < j THEN row[c] ELSE row[c + 1]]
Minor(M, j) == [r \in 1..(Len(M) - 1) |-> Without(M[r + 1], j)]
RECURSIVE DetTo(_, _)
Det(M) == IF Len(M) = 1 THEN M[1][1] ELSE DetTo(M, Len(M))
DetTo(M, m) ==
    IF m = 0 THEN Zero
    ELSE IF M[1][m] = Zero THEN DetTo(M, m - 1)
    ELSE With(Det(Minor(M, m)), LAMBDA d :
            RAdd(DetTo(M, m - 1),
                 RMul(IF m % 2 = 1 THEN M[1][m] ELSE RNeg(M[1][m]), d)))
RankDeficient(b) == Det(b) = Zero
\* The matrix the first invocation inverts.
FixedFrame(b, q) ==
    LET RR == BlockDiag(as_rotation_matrix(q), as_rotation_matrix(q))
    IN  MatMul(MatMul(RR, b), Transpose(RR))
\* The rank deficiency shows exactly in the elimination of the first invocation.
ExactlySingular(b, q) == RankDeficient(b) /\ inv(FixedFrame(b, q)).exact

\* C1: a step is semi-implicit Euler: the acceleration is the dynamics at the
\* state before the step, the velocity advances by dt times it, and the position
\* and the orientation advance with the velocity after the step.
C1_SemiImplicit ==
    Called =>
        \A k \in 0..(n - 1) :
            Computed(k) =>
                /\ k = n - 1 =>
                       accs[k] = eom(spatial_inertia_body, poses[k], vels[k],
                                     ForceAt(forces, k)).val
                /\ vels[k + 1] = VecAdd(vels[k], VecScale(dt, accs[k]))
                /\ poses[k + 1].p = VecAdd(poses[k].p, VecScale(dt, Head3(vels[k + 1])))
                /\ poses[k + 1].q =
                       from_rotation_vector_times(VecScale(dt, Tail3(vels[k + 1])),
                                                  poses[k].q)

C1_Witness ==
    /\ n >= 1
    /\ Computed(0)
    /\ Head3(vels[1]) # Head3(vels[0])
    /\ Tail3(vels[1]) # Tail3(vels[0])
    /\ Head3(vels[0]) # Zeros3
    /\ poses[1].p # VecAdd(poses[0].p, VecScale(dt, Head3(vels[0])))
    /\ poses[1].q.inc = <<VecScale(dt, Tail3(vels[1]))>>

\* C2: the traces returned hold n_steps + 1 poses, n_steps + 1 velocities and
\* n_steps accelerations, and start with the initial pose and velocity.
C2_TraceShape ==
    pc = "returned" =>
        /\ DOMAIN poses = 0..n_steps
        /\ DOMAIN vels = 0..n_steps
        /\ DOMAIN accs = 0..(n_steps - 1)
        /\ Cardinality(DOMAIN poses) = n_steps + 1
        /\ Cardinality(DOMAIN vels) = n_steps + 1
        /\ Cardinality(DOMAIN accs) = n_steps
        /\ poses[0] = pose0
        /\ vels[0] = vels0

C2_Witness ==
    /\ pc = "returned"
    /\ n_steps = 2
    /\ vels0 # Zeros6
    /\ poses[2] # pose0
    /\ accs[1] # Zeros6

\* C3: every step adds exactly dt to the timestamp, so that entry k holds the
\* initial time plus k dt.
C3_Timestamps ==
    Called =>
        /\ \A k \in 0..(n - 1) : poses[k + 1].t = RAdd(poses[k].t, dt)
        /\ \A k \in 0..n : poses[k].t = RAdd(pose0.t, RMul(Q(k), dt))

C3_Witness ==
    /\ pc = "returned"
    /\ n = 2
    /\ dt = Half
    /\ pose0.t = One
    /\ poses[2].t = Q(2)

\* Identity inertia, no force at any step and no initial velocity.
FreeMotion ==
    /\ Called
    /\ spatial_inertia_body = EyeBody
    /\ vels0 = Zeros6
    /\ \A k \in 1..Len(forces) : forces[k] = Zeros6

\* C4 as stated: in free motion every pose of the trace is the initial pose and
\* every velocity is zero.
C4_AsStated ==
    FreeMotion => \A k \in 0..n : poses[k] = pose0 /\ vels[k] = Zeros6

\* C4 amended: in free motion every pose of the trace has the position and the
\* orientation of the initial pose (its timestamp is the initial one plus k dt),
\* and every velocity is zero.
C4_FreeMotion ==
    FreeMotion =>
        \A k \in 0..n :
            /\ poses[k].p = pose0.p
            /\ poses[k].q = pose0.q
            /\ poses[k].t = RAdd(pose0.t, RMul(Q(k), dt))
            /\ vels[k] = Zeros6

C4_Witness ==
    /\ FreeMotion
    /\ pc = "returned"
    /\ n = 2
    /\ pose0.q # Orientation(QOne)
    /\ pose0.p # Zeros3
    /\ poses[2].t # pose0.t

\* C8 as stated: a force sequence whose length is not n_steps makes the call
\* fail before any step is computed.
C8_AsStated == (Called /\ Len(forces) # n_steps) => (n = 0 /\ pc # "returned")

\* C8 amended: no check is made at the call.  A sequence shorter than n_steps
\* ends the run with an IndexError when the loop reaches the first missing row,
\* after the steps before it were computed, and the run never returns; a longer
\* sequence raises nothing, its extra rows being ignored.
C8_ForceLength ==
    /\ err = "IndexError" => (Len(forces) < n_steps /\ n = Len(forces))
    /\ pc = "returned" => Len(forces) >= n_steps
    /\ (Called /\ Len(forces) < n_steps) => n <= Len(forces)

C8_Witness ==
    /\ err = "IndexError"
    /\ n = 1
    /\ Computed(0)
    /\ vels[1] # vels[0]

\* The first invocation of the run did not raise as a singular matrix must: a
\* step was completed, or the run ended with another error.
FirstInvocationPassed ==
    \/ n # 0
    \/ accs # AllocAccs(n_steps)
    \/ pc = "raised" /\ Len(forces) >= 1 /\ err # "LinAlgError"

\* C9 as stated: a rank-deficient body never fails when the dynamics is built,
\* and its first invocation raises instead of returning an acceleration.
C9_AsStated ==
    /\ pc \in {"eom", "discrete"} => err = "none"
    /\ (Called /\ FirstInvocationPassed) => ~RankDeficient(spatial_inertia_body)

\* C9 amended: building never fails; the first invocation raises when the rank
\* deficiency is exact in floating point, every step of the elimination being
\* exactly representable (the zero matrix, say).  Where the elimination rounds,
\* a pivot that should be zero may come out tiny, and the invocation may return.
C9_SingularInertia ==
    /\ pc \in {"eom", "discrete"} => err = "none"
    /\ (Called /\ FirstInvocationPassed) =>
           ~ExactlySingular(spatial_inertia_body, pose0.q.base)

C9_Witness ==
    /\ pc = "raised"
    /\ err = "LinAlgError"
    /\ n_steps = 2
    /\ pose0.q # Orientation(QOne)
    /\ ExactlySingular(spatial_inertia_body, pose0.q.base)

\* What one transition of the loop may change in the traces: nothing, or, as
\* step n, entries n + 1 of the poses and velocities and entry n of the
\* accelerations.
WritesOnlyStep ==
    /\ DOMAIN poses' = DOMAIN poses
    /\ DOMAIN vels' = DOMAIN vels
    /\ DOMAIN accs' = DOMAIN accs
    /\ \A k \in DOMAIN poses : k # n + 1 => poses'[k] = poses[k]
    /\ \A k \in DOMAIN vels : k # n + 1 => vels'[k] = vels[k]
    /\ \A k \in DOMAIN accs : k # n => accs'[k] = accs[k]
    /\ <<poses, vels, accs>> # <<poses', vels', accs'>> => n' = n + 1

\* C11: the trace entries are written once and in order.  Step n writes only
\* poses[n + 1], vels[n + 1] and accs[n]; the entries written before it, index 0
\* included, and its inputs poses[n], vels[n] and the forces stay as they were;
\* and the entries past the latest step are still the zeros of the allocation.
C11_WriteOnce ==
    /\ [][Called => (WritesOnlyStep /\ forces' = forces)]_vars
    /\ [](Called =>
            /\ poses[0] = pose0
            /\ vels[0] = vels0
            /\ \A k \in (n + 1)..n_steps : poses[k] = ZeroPose /\ vels[k] = Zeros6
            /\ \A k \in n..(n_steps - 1) : accs[k] = Zeros6)

C11_Witness ==
    /\ pc = "returned"
    /\ n = 2
    /\ Computed(0)
    /\ Computed(1)
    /\ poses[0] = pose0
    /\ vels[0] = vels0
    /\ vels[1] # vels[0]
    /\ vels[2] # vels[1]
    /\ poses[1].p # poses[0].p
    /\ poses[2].p # poses[1].p
    /\ accs[0] # accs[1]
    /\ accs[0] # Zeros6

\* Invocation n - 1, the latest, read the state at index n - 1 and force n - 1
\* (forces[n], the sequence counting from 1) and left its outputs at index n
\* and, the acceleration, at index n - 1.
LatestInvocation ==
    (pc = "loop" /\ n >= 1 /\ Computed(n - 1)) =>
        \E out \in {discrete_eom(spatial_inertia_body, dt, poses[n - 1], vels[n - 1],
                                 forces[n])} :
            /\ out.status = "ok"
            /\ poses[n] = out.pose_out
            /\ vels[n] = out.vels_out
            /\ accs[n - 1] = out.accs_out

\* C12 (under FairSpec): a run that does not fail invokes the integrator
\* n_steps times, for n = 0, 1, ... in order, and then returns; invocation n
\* maps the state at index n and force n to the state at index n + 1 and to
\* acceleration n; and every run ends.
C12_Driver ==
    /\ [][n' # n => (pc = "loop" /\ pc' = "loop" /\ n < n_steps /\ n' = n + 1)]_vars
    /\ [][pc' = "returned" => (pc = "returned" \/ (pc = "loop" /\ n = n_steps))]_vars
    /\ [](Called => (n <= n_steps /\ (pc = "returned" => n = n_steps)))
    /\ [](LatestInvocation)
    /\ (pc = "loop") ~> (pc \in {"returned", "raised"})

C12_Witness ==
    /\ pc = "returned"
    /\ n_steps = 2
    /\ n = 2
    /\ Computed(0)
    /\ Computed(1)
    /\ forces[1] # forces[2]
    /\ accs[0] # accs[1]
    /\ vels[2] # vels[1]

\* C13 (under SpecE): with the identity as body inertia the dynamics returns
\* the applied force as the acceleration, whatever the velocity and the
\* orientation: the correction for the rotating frame is (nu2 x nu1, 0), and
\* it cancels what the Coriolis term leaves in the body-frame result.
C13_IdentityInertia ==
    (pc \in {"eom_returned", "eom_raised"} /\ spatial_inertia_body = EyeBody) =>
        /\ pc = "eom_returned"
        /\ accs[0] = forces[1]
        /\ MatVec(BlockDiag(hat(Tail3(vels0)), hat(Tail3(vels0))), vels0)
               = Cross(Tail3(vels0), Head3(vels0)) \o Zeros3

C13_Witness ==
    /\ pc = "eom_returned"
    /\ spatial_inertia_body = EyeBody
    /\ Cross(Head3(vels0), Tail3(vels0)) # Zeros3
    /\ pose0.q # Orientation(QOne)
    /\ forces[1] # Zeros6
    /\ Tail3(forces[1]) # Zeros3
    /\ accs[0] = forces[1]

(***************************************************************************)
(* The point transform and hat: C5, C6, C7, C10 (under SpecT).             *)
(***************************************************************************)
Symmetric(A) == A = Transpose(A)
MatScale(c, A) == Mat(Len(A), LAMBDA i, j : RMul(c, A[i][j]))
\* r^T r I - r r^T
ParallelAxis(r) ==
    Mat(3, LAMBDA i, j : RSub(IF i = j THEN Dot(r, r) ELSE Zero, RMul(r[i], r[j])))
Ex == IntVec(<<1, 0, 0>>)

\* C5: transforming a matrix by r and the result by -r gives the matrix back,
\* for every matrix and displacement, symmetric or not.
C5_RoundTrip == tpc = "back" => tBack = tA

C5_Witness ==
    /\ tpc = "back"
    /\ tr # Zeros3
    /\ ~Symmetric(tA)
    /\ tP # tA
    /\ tBack = tA

\* C6 as stated: for mass 2 and unit inertia tensor about the centre of mass,
\* transforming by r = (1,0,0) gives both off-diagonal blocks equal to m hat(r),
\* adds m (r.r I - r r^T) to the lower right block and leaves the upper left.
C6_AsStated ==
    (tpc = "at_P" /\ tA = RigidBody(2) /\ tr = Ex) =>
        /\ Block(tP, 1, 1) = Block(tA, 1, 1)
        /\ Block(tP, 1, 2) = MatScale(Q(2), hat(tr))
        /\ Block(tP, 2, 1) = MatScale(Q(2), hat(tr))
        /\ Block(tP, 2, 2) = MatAdd(Block(tA, 2, 2), MatScale(Q(2), ParallelAxis(tr)))

\* C6 amended: the lower left block is m hat(r) and the upper right block is
\* -m hat(r), its transpose; the lower right block grows by m (r.r I - r r^T)
\* and the upper left block is unchanged.
C6_ParallelAxis ==
    (tpc = "at_P" /\ tA = RigidBody(2) /\ tr = Ex) =>
        /\ Block(tP, 1, 1) = Block(tA, 1, 1)
        /\ Block(tP, 1, 2) = MatNeg(MatScale(Q(2), hat(tr)))
        /\ Block(tP, 2, 1) = MatScale(Q(2), hat(tr))
        /\ Block(tP, 2, 2) = MatAdd(Block(tA, 2, 2), MatScale(Q(2), ParallelAxis(tr)))

C6_Witness ==
    /\ tpc = "at_P"
    /\ tA = RigidBody(2)
    /\ tr = Ex
    /\ Block(tP, 2, 2) # Block(tA, 2, 2)

\* C7: transforming by the zero displacement leaves every matrix as it is.
C7_ZeroDisplacement == (tpc = "at_P" /\ tr = Zeros3) => tP = tA

C7_Witness ==
    /\ tpc = "at_P"
    /\ tr = Zeros3
    /\ ~Symmetric(tA)
    /\ Block(tA, 1, 1) # Zeros33

\* C10: hat(v) is skew-symmetric, and hat(v) w is the cross product v x w.
C10_Skew ==
    tpc = "hat" =>
        /\ Transpose(tHat) = MatNeg(tHat)
        /\ tHw = Cross(tr, tw)

C10_Witness ==
    /\ tpc = "hat"
    /\ \A i \in 1..3 : tr[i] # Zero
    /\ tHw # Zeros3
    /\ tHat # Zeros33

====
